---- MODULE Spec2Model ----
(***************************************************************************)
(* Model of the PAN-Search matching pipeline (src/src/search.py and        *)
(* src/src/utils/nlp.py): text normalisation, candidate blocking,          *)
(* verification and closure expansion over a read-only transactions table. *)
(*                                                                         *)
(* Strings are sequences of characters; a character is a one-word TLA+     *)
(* string.  Python's None / SQL NULL is the distinguished value Null.      *)
(***************************************************************************)
EXTENDS Integers, Sequences, FiniteSets, TLC

VARIABLES
    \* ---- pure-function harness (normalize_name, pick_canonical_names,
    \*      verify_candidate, expand called directly)
    arg,        \* the input of the call
    ret,        \* the value(s) returned so far
    fpc,        \* position of the harness
    \* ---- the data source and the configuration (read-only)
    table,      \* the transactions table: sequence of rows
    hasPhon,    \* whether the table has a name_phonetic column
    cfg,        \* config.THRESHOLDS and config.SEARCH
    \* ---- one resolution request (search_by_pan / search_by_seed_name)
    pc,         \* position inside the running search
    op,         \* "pan" | "name" | "none"
    seed,       \* canonical PAN (search_by_pan) or seed_norm (search_by_seed_name)
    base_rows,  \* set of row ids returned by fetch_rows_for_pan
    base_names, \* sequence of canonical names
    candidates, \* set of row ids returned by candidate_block_by_names
    verified,   \* set of row ids that passed verify_candidate
    exp_pans,   \* the pans argument of expand_all_transactions_for_entities
    exp_names,  \* the names argument of expand_all_transactions_for_entities
    result,     \* set of row ids returned by expand_all_transactions_for_entities
    stmts       \* statements issued against the connection, in order

vars == <<arg, ret, fpc, table, hasPhon, cfg, pc, op, seed, base_rows,
          base_names, candidates, verified, exp_pans, exp_names, result, stmts>>

fvars == <<arg, ret, fpc>>
dbvars == <<table, hasPhon, cfg>>
reqvars == <<pc, op, seed, base_rows, base_names, candidates, verified,
             exp_pans, exp_names, result, stmts>>

-----------------------------------------------------------------------------
(* Bounds of the model *)

\* longest raw string given to normalize_name
MaxStrLen == 3

\* most rows given to pick_canonical_names
MaxCanonRows == 5

\* most base names given to verify_candidate
MaxBaseNames == 2

\* number of rows of the transactions table
MaxRows == 3

\* largest candidate limit and row cap of the configurations with varying caps
MaxCap == 3

-----------------------------------------------------------------------------
(* Values *)

\* Python None / SQL NULL
Null == <<"<NULL>">>

\* `if x:` on an Optional[str]
Truthy(x) == x # Null /\ x # <<>>

\* U+0130 LATIN CAPITAL LETTER I WITH DOT ABOVE, and U+0307 COMBINING DOT ABOVE
IDOT == "I+dot"
DOT == "+dot"
\* U+0917 DEVANAGARI LETTER GA, inside DEVANAGARI_BLOCK
GA == "ga"

\* characters a raw name is built from
NameChars == {"i", "I", IDOT, DOT, GA, " ", "-"}

\* code points DEVANAGARI_BLOCK[0] <= cp <= DEVANAGARI_BLOCK[1]
DEVANAGARI_BLOCK == {GA}

\* \s of Python's re (str pattern)
IsSpace(c) == c \in {" ", "\t"}

\* \w of Python's re (str pattern): alphanumerics and underscore; a combining
\* mark (category Mn) such as U+0307 is not alphanumeric
IsWord(c) == c \in {"a", "b", "p", "A", "B", "P", "i", "I", IDOT, GA}

\* str.lower() of one character; U+0130 lower-cases to "i" + U+0307
LowerChar(c) ==
    CASE c = "A" -> <<"a">>
      [] c = "B" -> <<"b">>
      [] c = "P" -> <<"p">>
      [] c = "I" -> <<"i">>
      [] c = IDOT -> <<"i", DOT>>
      [] OTHER -> <<c>>

\* str.upper() of one character
UpperChar(c) ==
    CASE c = "a" -> <<"A">>
      [] c = "b" -> <<"B">>
      [] c = "p" -> <<"P">>
      [] c = "i" -> <<"I">>
      [] OTHER -> <<c>>

\* str.lower()
RECURSIVE Lower(_)
Lower(s) == IF s = <<>> THEN <<>> ELSE LowerChar(Head(s)) \o Lower(Tail(s))

\* str.upper()
RECURSIVE Upper(_)
Upper(s) == IF s = <<>> THEN <<>> ELSE UpperChar(Head(s)) \o Upper(Tail(s))

-----------------------------------------------------------------------------
(* src/src/utils/nlp.py: the text normalizer *)

\* is_devanagari
is_devanagari(text) ==
    IF ~Truthy(text) THEN FALSE
    ELSE \E i \in 1..Len(text) : text[i] \in DEVANAGARI_BLOCK

\* unicodedata.normalize("NFC", text or ""): "I" followed by U+0307 composes
\* to U+0130; no other pair of the alphabet composes
RECURSIVE to_nfc(_)
to_nfc(text) ==
    IF ~Truthy(text) THEN <<>>
    ELSE IF Len(text) >= 2 /\ text[1] = "I" /\ text[2] = DOT
         THEN <<IDOT>> \o to_nfc(Tail(Tail(text)))
         ELSE <<Head(text)>> \o to_nfc(Tail(text))

\* re.sub(r"[^\w\sऀ-ॿ]", " ", text or "")
PunctChar(c) ==
    IF IsWord(c) \/ IsSpace(c) \/ c \in DEVANAGARI_BLOCK THEN <<c>> ELSE <<" ">>

RECURSIVE normalize_punct(_)
normalize_punct(text) ==
    IF ~Truthy(text) THEN <<>>
    ELSE PunctChar(Head(text)) \o normalize_punct(Tail(text))

\* re.sub(r"\s+", " ", text): every maximal run of whitespace becomes one space
RECURSIVE CollapseSpace(_)
CollapseSpace(s) ==
    IF s = <<>> THEN <<>>
    ELSE IF IsSpace(Head(s))
         THEN IF Len(s) >= 2 /\ IsSpace(s[2])
              THEN CollapseSpace(Tail(s))
              ELSE <<" ">> \o CollapseSpace(Tail(s))
         ELSE <<Head(s)>> \o CollapseSpace(Tail(s))

\* str.strip()
RECURSIVE LStrip(_)
LStrip(s) == IF s # <<>> /\ IsSpace(Head(s)) THEN LStrip(Tail(s)) ELSE s

RECURSIVE RStrip(_)
RStrip(s) ==
    IF s # <<>> /\ IsSpace(s[Len(s)]) THEN RStrip(SubSeq(s, 1, Len(s) - 1)) ELSE s

Strip(s) == RStrip(LStrip(s))

normalize_whitespace(text) ==
    IF ~Truthy(text) THEN <<>> ELSE Strip(CollapseSpace(text))

\* normalize_name
normalize_name(raw) ==
    IF ~Truthy(raw) THEN <<>>
    ELSE Lower(normalize_whitespace(normalize_punct(to_nfc(raw))))

\* re.sub(r"\s+", "", pan)
RemoveSpaceChar(c) == IF IsSpace(c) THEN <<>> ELSE <<c>>

RECURSIVE RemoveSpace(_)
RemoveSpace(s) ==
    IF s = <<>> THEN <<>> ELSE RemoveSpaceChar(Head(s)) \o RemoveSpace(Tail(s))

\* canonicalize_pan
canonicalize_pan(pan) ==
    IF ~Truthy(pan) THEN <<>> ELSE Upper(RemoveSpace(pan))

-----------------------------------------------------------------------------
(* src/src/utils/nlp.py: phonetic encoder and similarity scorer.  The       *)
(* libraries (phonetics.dmetaphone, indic_transliteration, rapidfuzz) are   *)
(* modelled by their algorithms restricted to the alphabet of the model.    *)

\* detect_language
detect_language(text) == IF is_devanagari(text) THEN "devanagari" ELSE "latin"

\* transliterate(text, DEVANAGARI, ITRANS): the bare consonant GA is "ga"
ItransChar(c) == IF c = GA THEN <<"g", "a">> ELSE <<c>>

\* devanagari_to_latin
RECURSIVE devanagari_to_latin(_)
devanagari_to_latin(text) ==
    IF ~Truthy(text) THEN <<>>
    ELSE ItransChar(Head(text)) \o devanagari_to_latin(Tail(text))

IsVowel(c) == c \in {"A", "I"}

\* phonetics.dmetaphone(text)[0] on the upper-cased text: an initial vowel
\* codes as "A", later vowels are silent, B and P code as "P" (a doubled
\* letter once), G before a vowel codes as "K", anything else is skipped
RECURSIVE Metaphone(_, _)
Metaphone(s, first) ==
    IF s = <<>> THEN <<>>
    ELSE LET c == Head(s)
             rest == Tail(s)
         IN CASE IsVowel(c) ->
                    (IF first THEN <<"A">> ELSE <<>>) \o Metaphone(rest, FALSE)
              [] c = "B" ->
                    <<"P">> \o Metaphone(IF rest # <<>> /\ Head(rest) = "B"
                                         THEN Tail(rest) ELSE rest, FALSE)
              [] c = "P" ->
                    <<"P">> \o Metaphone(IF rest # <<>> /\ Head(rest) \in {"P", "B"}
                                         THEN Tail(rest) ELSE rest, FALSE)
              [] c = "G" -> <<"K">> \o Metaphone(rest, FALSE)
              [] OTHER -> Metaphone(rest, FALSE)

UpperLatinChar(c) == IF c = "g" THEN <<"G">> ELSE UpperChar(c)

RECURSIVE UpperLatin(_)
UpperLatin(s) ==
    IF s = <<>> THEN <<>> ELSE UpperLatinChar(Head(s)) \o UpperLatin(Tail(s))

dmetaphone(text) == Metaphone(UpperLatin(text), TRUE)

\* english_phonetic_key
english_phonetic_key(text) == dmetaphone(IF Truthy(text) THEN text ELSE <<>>)

\* marathi_phonetic_key
marathi_phonetic_key(text) == dmetaphone(devanagari_to_latin(text))

\* phonetic_key
phonetic_key(text) ==
    IF ~Truthy(text) THEN <<>>
    ELSE IF detect_language(text) = "devanagari"
         THEN marathi_phonetic_key(text)
         ELSE english_phonetic_key(text)

\* code point order of the characters (sorted() of tokens)
CodePoint(c) ==
    CASE c = "\t" -> 9
      [] c = " " -> 32
      [] c = "-" -> 45
      [] c = "A" -> 65
      [] c = "B" -> 66
      [] c = "I" -> 73
      [] c = "P" -> 80
      [] c = "a" -> 97
      [] c = "b" -> 98
      [] c = "g" -> 103
      [] c = "i" -> 105
      [] c = "p" -> 112
      [] c = IDOT -> 304
      [] c = DOT -> 775
      [] c = GA -> 2327
      [] OTHER -> 0

\* s < t in Python's string order
RECURSIVE StrLess(_, _)
StrLess(s, t) ==
    IF t = <<>> THEN FALSE
    ELSE IF s = <<>> THEN TRUE
    ELSE IF CodePoint(Head(s)) # CodePoint(Head(t))
         THEN CodePoint(Head(s)) < CodePoint(Head(t))
         ELSE StrLess(Tail(s), Tail(t))

\* str.split(): the whitespace-separated tokens, as a set
RECURSIVE Tokens(_, _)
Tokens(s, cur) ==
    IF s = <<>> THEN (IF cur = <<>> THEN {} ELSE {cur})
    ELSE IF IsSpace(Head(s))
         THEN (IF cur = <<>> THEN {} ELSE {cur}) \cup Tokens(Tail(s), <<>>)
         ELSE Tokens(Tail(s), Append(cur, Head(s)))

\* " ".join(sorted(toks))
RECURSIVE JoinSorted(_)
JoinSorted(toks) ==
    IF toks = {} THEN <<>>
    ELSE LET m == CHOOSE x \in toks : \A y \in toks \ {x} : StrLess(x, y)
             rest == JoinSorted(toks \ {m})
         IN IF rest = <<>> THEN m ELSE m \o <<" ">> \o rest

\* length of the longest common subsequence
RECURSIVE LCS(_, _)
LCS(s, t) ==
    IF s = <<>> \/ t = <<>> THEN 0
    ELSE IF Head(s) = Head(t) THEN 1 + LCS(Tail(s), Tail(t))
    ELSE LET x == LCS(Tail(s), t)
             y == LCS(s, Tail(t))
         IN IF x >= y THEN x ELSE y

\* rapidfuzz Indel distance
IndelDistance(s, t) == Len(s) + Len(t) - 2 * LCS(s, t)

\* rapidfuzz _norm_distance, truncated by int()
NormDistance(dist, lensum) ==
    IF lensum > 0 THEN (100 * (lensum - dist)) \div lensum ELSE 100

Max2(x, y) == IF x >= y THEN x ELSE y

\* int(fuzz.token_set_ratio(a, b))
token_set_ratio(a, b) ==
    LET tokens_a == Tokens(a, <<>>)
        tokens_b == Tokens(b, <<>>)
        intersect == tokens_a \cap tokens_b
        diff_ab == tokens_a \ tokens_b
        diff_ba == tokens_b \ tokens_a
        diff_ab_joined == JoinSorted(diff_ab)
        diff_ba_joined == JoinSorted(diff_ba)
        ab_len == Len(diff_ab_joined)
        ba_len == Len(diff_ba_joined)
        sect_len == Len(JoinSorted(intersect))
        sep == IF sect_len # 0 THEN 1 ELSE 0
        sect_ab_len == sect_len + sep + ab_len
        sect_ba_len == sect_len + sep + ba_len
        res == NormDistance(IndelDistance(diff_ab_joined, diff_ba_joined),
                            sect_ab_len + sect_ba_len)
        sect_ab_ratio == NormDistance(sep + ab_len, sect_len + sect_ab_len)
        sect_ba_ratio == NormDistance(sep + ba_len, sect_len + sect_ba_len)
    IN IF tokens_a = {} \/ tokens_b = {} THEN 0
       ELSE IF intersect # {} /\ (diff_ab = {} \/ diff_ba = {}) THEN 100
       ELSE IF sect_len = 0 THEN res
       ELSE Max2(res, Max2(sect_ab_ratio, sect_ba_ratio))

\* fuzzy_name_score
fuzzy_name_score(a, b) == token_set_ratio(a, b)

\* fuzzy_address_score
fuzzy_address_score(a, b) == token_set_ratio(a, b)

-----------------------------------------------------------------------------
(* src/src/search.py *)

\* the sequence s as a set
Range(s) == {s[i] : i \in 1..Len(s)}

\* number of occurrences of x in s
RECURSIVE CountIn(_, _)
CountIn(x, s) ==
    IF s = <<>> THEN 0
    ELSE (IF Head(s) = x THEN 1 ELSE 0) + CountIn(x, Tail(s))

\* keys of a Counter, in insertion (first-seen) order
RECURSIVE FirstSeen(_, _)
FirstSeen(s, seen) ==
    IF s = <<>> THEN <<>>
    ELSE IF Head(s) \in seen THEN FirstSeen(Tail(s), seen)
         ELSE <<Head(s)>> \o FirstSeen(Tail(s), seen \cup {Head(s)})

\* sorted(keys, key=count, reverse=True): stable, so equal counts keep their
\* first-seen order
RECURSIVE SortByCount(_, _)
SortByCount(keys, s) ==
    IF keys = <<>> THEN <<>>
    ELSE LET i == CHOOSE i \in 1..Len(keys) :
                    /\ \A j \in 1..Len(keys) : CountIn(keys[j], s) <= CountIn(keys[i], s)
                    /\ \A j \in 1..(i - 1) : CountIn(keys[j], s) < CountIn(keys[i], s)
             others == [j \in 1..(Len(keys) - 1) |-> IF j < i THEN keys[j] ELSE keys[j + 1]]
         IN <<keys[i]>> \o SortByCount(others, s)

\* Counter(...).most_common(n)
most_common(s, n) ==
    LET sorted == SortByCount(FirstSeen(s, {}), s)
    IN SubSeq(sorted, 1, IF Len(sorted) < n THEN Len(sorted) ELSE n)

\* faulty variant: most_common() without the cut to 3 names
pick_canonical_names_uncut(names) == most_common(SelectSeq(names, Truthy), Len(names))

\* pick_canonical_names; names is [r[0] for r in rows]
pick_canonical_names(names) == most_common(SelectSeq(names, Truthy), 3)

\* the rows of the table are identified by their position
RowIds == 1..Len(table)

\* `x or ""`
OrEmpty(x) == IF x = Null THEN <<>> ELSE x

\* the 5-column projection of fetch_rows_for_pan and of the phonetic branch of
\* candidate_block_by_names (a column the table lacks is selected as '')
Project(i) ==
    [name_norm |-> table[i].name_norm,
     name_phonetic |-> IF hasPhon THEN table[i].name_phonetic ELSE <<>>,
     address |-> table[i].address,
     mobile |-> table[i].mobile,
     pan_upper |-> table[i].pan_upper]

\* SQL `col = ?` / `col IN (...)`: NULL matches nothing
SqlIn(v, S) == v # Null /\ v \in S

\* faulty variant: the LIMIT clause left out
LimitChoices_unlimited(S, n) == {S}

\* LIMIT n on an unordered result: any n of the matching rows
LimitChoices(S, n) ==
    IF Cardinality(S) <= n THEN {S}
    ELSE {T \in SUBSET S : Cardinality(T) = n}

\* fetch_rows_for_pan: the rows returned
fetch_rows_for_pan(pan) ==
    {i \in RowIds : SqlIn(table[i].pan_upper, {canonicalize_pan(pan)})}

\* faulty variant: the `if n` filter on the seeded names left out
BlockKeys_unfiltered(names) ==
    IF hasPhon THEN {phonetic_key(names[k]) : k \in 1..Len(names)}
    ELSE {normalize_name(names[k]) : k \in 1..Len(names)}

\* candidate_block_by_names: the parameters of the candidate query
BlockKeys(names) ==
    IF hasPhon THEN {phonetic_key(names[k]) : k \in {j \in 1..Len(names) : Truthy(names[j])}}
    ELSE {normalize_name(names[k]) : k \in {j \in 1..Len(names) : Truthy(names[j])}}

\* candidate_block_by_names: the statements it issues
BlockStatements(names) ==
    <<"PRAGMA table_info">> \o
    (IF BlockKeys(names) = {} THEN <<>>
     ELSE IF hasPhon THEN <<"SELECT candidates WHERE name_phonetic IN">>
     ELSE <<"SELECT candidates WHERE name_norm IN">>)

\* candidate_block_by_names: the rows the WHERE clause selects
BlockMatching(names) ==
    IF BlockKeys(names) = {} THEN {}
    ELSE IF hasPhon
         THEN {i \in RowIds : SqlIn(table[i].name_phonetic, BlockKeys(names))}
         ELSE {i \in RowIds : SqlIn(table[i].name_norm, BlockKeys(names))}

\* candidate_block_by_names: the possible results
candidate_block_by_names(names) ==
    IF BlockKeys(names) = {} THEN {{}}
    ELSE LimitChoices(BlockMatching(names), cfg.candidate_limit)

\* max(..., default=0)
RECURSIVE MaxOf(_)
MaxOf(S) ==
    IF S = {} THEN 0
    ELSE LET x == CHOOSE x \in S : TRUE
         IN IF S = {x} THEN x ELSE Max2(x, MaxOf(S \ {x}))

\* best_name of verify_candidate
BestName(names, name_norm) ==
    MaxOf({fuzzy_name_score(name_norm, names[k]) : k \in 1..Len(names)})

\* addr_ok of verify_candidate: the candidate's address against itself
AddrOk(row) ==
    fuzzy_address_score(OrEmpty(row.address), OrEmpty(row.address)) >= cfg.address_loose

\* faulty variant: mobile evidence asked for even when mobile-exact is not required
MobileOk_always_required(row) == Truthy(row.mobile)

\* mobile_ok of verify_candidate
MobileOk(row) ==
    IF ~cfg.mobile_exact_required THEN TRUE ELSE Truthy(row.mobile)

\* faulty variant: the loose threshold not checked before the attribute evidence
verify_candidate_no_loose_floor(names, row) ==
    IF ~Truthy(row.name_norm) THEN FALSE
    ELSE LET best_name == BestName(names, row.name_norm)
         IN IF best_name >= cfg.name_strict THEN TRUE
            ELSE IF best_name >= cfg.name_medium THEN TRUE
            ELSE AddrOk(row) \/ MobileOk(row)

\* verify_candidate
verify_candidate(names, row) ==
    IF ~Truthy(row.name_norm) THEN FALSE
    ELSE LET best_name == BestName(names, row.name_norm)
         IN IF best_name >= cfg.name_strict THEN TRUE
            ELSE IF best_name >= cfg.name_medium THEN TRUE
            ELSE IF best_name >= cfg.name_loose THEN AddrOk(row) \/ MobileOk(row)
            ELSE FALSE

\* expand_all_transactions_for_entities: pans and names after filtering
ExpandPans(pans) == {canonicalize_pan(p) : p \in {q \in pans : Truthy(q)}}
ExpandNames(names) == {n \in names : Truthy(n)}

\* faulty variant: no WHERE clause when there is no condition
ExpandWhere_no_default(pans, names, i) ==
    \/ ExpandPans(pans) = {} /\ ExpandNames(names) = {}
    \/ ExpandPans(pans) # {} /\ SqlIn(table[i].pan_upper, ExpandPans(pans))
    \/ ExpandNames(names) # {} /\ SqlIn(table[i].name_norm, ExpandNames(names))

\* expand_all_transactions_for_entities: the WHERE clause; "1=0" without conditions
ExpandWhere(pans, names, i) ==
    \/ ExpandPans(pans) # {} /\ SqlIn(table[i].pan_upper, ExpandPans(pans))
    \/ ExpandNames(names) # {} /\ SqlIn(table[i].name_norm, ExpandNames(names))

ExpandMatching(pans, names) == {i \in RowIds : ExpandWhere(pans, names, i)}

\* expand_all_transactions_for_entities: the possible results; LIMIT is added
\* only when SP.limit_return_rows is truthy
expand_all_transactions_for_entities(pans, names) ==
    IF cfg.limit_return_rows # 0
    THEN LimitChoices(ExpandMatching(pans, names), cfg.limit_return_rows)
    ELSE {ExpandMatching(pans, names)}

-----------------------------------------------------------------------------
(* Inputs of the pure-function specifications *)

\* all strings over S of length at most n
RECURSIVE StringsUpTo(_, _)
StringsUpTo(S, n) ==
    IF n = 0 THEN {<<>>}
    ELSE LET shorter == StringsUpTo(S, n - 1)
         IN shorter \cup {Append(s, c) : s \in {t \in shorter : Len(t) = n - 1}, c \in S}

\* the request is idle / the data source is not used
IdleDb == table = <<>> /\ hasPhon = FALSE /\ cfg = <<>>
IdleReq ==
    /\ pc = "idle" /\ op = "none" /\ seed = <<>>
    /\ base_rows = {} /\ base_names = <<>> /\ candidates = {}
    /\ verified = {} /\ exp_pans = {} /\ exp_names = {}
    /\ result = {} /\ stmts = <<>>

-----------------------------------------------------------------------------
(* normalize_name applied once and then to its own output *)

InitNorm ==
    /\ arg \in StringsUpTo(NameChars, MaxStrLen) \cup {Null}
    /\ ret = <<>>
    /\ fpc = "start"
    /\ IdleDb /\ IdleReq

NormalizeOnce ==
    /\ fpc = "start"
    /\ ret' = <<normalize_name(arg)>>
    /\ fpc' = "once"
    /\ UNCHANGED <<arg, dbvars, reqvars>>

NormalizeAgain ==
    /\ fpc = "once"
    /\ ret' = Append(ret, normalize_name(ret[1]))
    /\ fpc' = "twice"
    /\ UNCHANGED <<arg, dbvars, reqvars>>

NextNorm == NormalizeOnce \/ NormalizeAgain

SpecNorm == InitNorm /\ [][NextNorm]_vars

\* C8: normalize_name is idempotent: normalising the output of normalize_name
\* gives that output again, for every input string.
C8_Idempotent == fpc = "twice" => ret[2] = ret[1]

-----------------------------------------------------------------------------
(* The resolution pipeline: search_by_pan and search_by_seed_name against a   *)
(* read-only transactions table.                                            *)

\* values of the name_phonetic column
TablePhons == <<<<"A", "P">>, <<"P">>>>

\* the k-th row over the given name_norm and pan_upper values; a table without
\* name_phonetic column has no phonetic values; address and mobile are empty
RowAt(k, phon, names, pans) ==
    [name_norm |-> names[(k % Len(names)) + 1],
     pan_upper |-> pans[((k \div Len(names)) % Len(pans)) + 1],
     name_phonetic |-> IF phon THEN TablePhons[(k \div (Len(names) * Len(pans))) + 1]
                       ELSE Null,
     address |-> <<>>,
     mobile |-> <<>>]

RowCount(phon, names, pans) ==
    Len(names) * Len(pans) * (IF phon THEN Len(TablePhons) ELSE 1)

\* non-decreasing lists of n indices in lo..hi
RECURSIVE IndexLists(_, _, _)
IndexLists(n, lo, hi) ==
    IF n = 0 THEN {<<>>}
    ELSE UNION {{<<k>> \o t : t \in IndexLists(n - 1, k, hi)} : k \in lo..hi}

\* the tables of MaxRows rows, up to the order of the rows
Tables(phon, names, pans) ==
    {[i \in 1..MaxRows |-> RowAt(t[i], phon, names, pans)] :
        t \in IndexLists(MaxRows, 0, RowCount(phon, names, pans) - 1)}

\* config.THRESHOLDS and config.SEARCH: the scores of the table's names are
\* 0, 50, 66 and 100
PipeConfigs ==
    [name_strict : {90}, name_medium : {60}, name_loose : {50},
     address_loose : {60}, mobile_exact_required : BOOLEAN,
     candidate_limit : {2}, limit_return_rows : {0, 2}]

\* seeds of the requests
RawPans == {<<"a">>, <<"B", " ">>, <<" ">>}
RawSeedNames == {<<>>, <<"-", " ">>, <<"A", "B">>, <<"a", "p">>}

Init ==
    /\ arg = <<>> /\ ret = <<>> /\ fpc = "none"
    /\ hasPhon \in BOOLEAN
    /\ table \in Tables(hasPhon, <<<<>>, <<"a", "b">>, <<"a", "p">>, <<"b">>>>,
                         <<<<>>, <<"A">>, <<"B">>>>)
    /\ cfg \in PipeConfigs
    /\ IdleReq

\* faulty variant: the early return on no base rows left out
PcAfterFetch_no_return(rows) == "fetched"

\* search_by_pan, lines 124-125: `if not base_rows: return []`
PcAfterFetch(rows) == IF rows = {} THEN "done" ELSE "fetched"

\* search_by_pan, lines 123-125
FetchRowsForPan ==
    /\ pc = "idle"
    /\ \E pan \in RawPans :
        /\ op' = "pan"
        /\ seed' = pan
        /\ base_rows' = fetch_rows_for_pan(pan)
        /\ stmts' = <<"PRAGMA table_info", "SELECT seed WHERE pan_upper =">>
        /\ pc' = PcAfterFetch(fetch_rows_for_pan(pan))
    /\ result' = {}
    /\ UNCHANGED <<base_names, candidates, verified, exp_pans, exp_names, fvars, dbvars>>

\* [r[0] for r in base_rows], in the order of the table
RECURSIVE NamesOf(_, _)
NamesOf(rows, i) ==
    IF i > Len(table) THEN <<>>
    ELSE (IF i \in rows THEN <<table[i].name_norm>> ELSE <<>>) \o NamesOf(rows, i + 1)

\* search_by_pan, lines 126-127
BlockByCanonicalNames ==
    /\ pc = "fetched"
    /\ base_names' = pick_canonical_names(NamesOf(base_rows, 1))
    /\ candidates' \in candidate_block_by_names(base_names')
    /\ stmts' = stmts \o BlockStatements(base_names')
    /\ pc' = "blocked"
    /\ UNCHANGED <<op, seed, base_rows, verified, exp_pans, exp_names, result, fvars, dbvars>>

\* search_by_seed_name, lines 135-137
BlockBySeedName ==
    /\ pc = "idle"
    /\ \E seed_name \in RawSeedNames :
        /\ op' = "name"
        /\ seed' = seed_name
        /\ base_names' = <<normalize_name(seed_name)>>
    /\ candidates' \in candidate_block_by_names(base_names')
    /\ stmts' = BlockStatements(base_names')
    /\ pc' = "blocked"
    /\ UNCHANGED <<base_rows, verified, exp_pans, exp_names, result, fvars, dbvars>>

\* search_by_pan line 128, search_by_seed_name line 138
VerifyCandidates ==
    /\ pc = "blocked"
    /\ verified' = {i \in candidates : verify_candidate(base_names, Project(i))}
    /\ pc' = "verified"
    /\ UNCHANGED <<op, seed, base_rows, base_names, candidates, exp_pans, exp_names,
                   result, stmts, fvars, dbvars>>

\* search_by_pan, lines 129-130
PanExpandPans == {table[i].pan_upper : i \in {j \in base_rows : Truthy(table[j].pan_upper)}}
PanExpandNames ==
    {table[i].name_norm : i \in {j \in base_rows : Truthy(table[j].name_norm)}}
        \cup {table[i].name_norm : i \in verified}

\* search_by_seed_name, lines 139-141; the faulty variant leaves the seed out of the names
NameExpandPans == {table[i].pan_upper : i \in {j \in verified : Truthy(table[j].pan_upper)}}
NameExpandNames_verified_only == {table[i].name_norm : i \in verified}

NameExpandNames == {table[i].name_norm : i \in verified} \cup {base_names[1]}

\* search_by_pan line 131, search_by_seed_name line 142
ExpandEntities ==
    /\ pc = "verified"
    /\ exp_pans' = IF op = "pan" THEN PanExpandPans ELSE NameExpandPans
    /\ exp_names' = IF op = "pan" THEN PanExpandNames ELSE NameExpandNames
    /\ result' \in expand_all_transactions_for_entities(exp_pans', exp_names')
    /\ stmts' = Append(stmts, "SELECT * expand")
    /\ pc' = "done"
    /\ UNCHANGED <<op, seed, base_rows, base_names, candidates, verified, fvars, dbvars>>

\* the rows are handed to the caller; nothing of the request persists
Return ==
    /\ pc = "done"
    /\ pc' = "idle" /\ op' = "none" /\ seed' = <<>>
    /\ base_rows' = {} /\ base_names' = <<>> /\ candidates' = {}
    /\ verified' = {} /\ exp_pans' = {} /\ exp_names' = {}
    /\ result' = {} /\ stmts' = <<>>
    /\ UNCHANGED <<fvars, dbvars>>

Next ==
    \/ FetchRowsForPan
    \/ BlockByCanonicalNames
    \/ BlockBySeedName
    \/ VerifyCandidates
    \/ ExpandEntities
    \/ Return

Spec == Init /\ [][Next]_vars

\* the running search has issued its closure expansion and holds its result
Expanded == pc = "done" /\ op \in {"pan", "name"} /\ "SELECT * expand" \in Range(stmts)

\* the LIMIT of the closure expansion cut rows off
Truncated ==
    /\ cfg.limit_return_rows # 0
    /\ Cardinality(ExpandMatching(exp_pans, exp_names)) > cfg.limit_return_rows

\* C3: in search_by_pan with no cap truncating, every row that has the
\* name_norm of a verified candidate is in the result, and so is every row
\* that has the pan_upper of a verified candidate.
C3_VerifiedIdentifiersExpanded ==
    (Expanded /\ op = "pan" /\ ~Truncated) =>
        \A v \in verified : \A i \in RowIds :
            /\ table[i].name_norm = table[v].name_norm => i \in result
            /\ (Truthy(table[v].pan_upper) /\ table[i].pan_upper = table[v].pan_upper)
                    => i \in result

\* the best name similarity of row i against the seeded names is below the
\* loose threshold
BelowLoose(i) ==
    \A k \in 1..Len(base_names) :
        fuzzy_name_score(OrEmpty(table[i].name_norm), base_names[k]) < cfg.name_loose

\* C4 as stated: a candidate below the loose threshold is absent from the
\* final result.
C4_BelowLooseAbsent ==
    Expanded => \A i \in candidates : BelowLoose(i) => i \notin result

\* row i has a PAN that was given to the closure expansion
SharesExpandedPan(i) ==
    /\ Truthy(table[i].pan_upper)
    /\ \E j \in (IF op = "pan" THEN base_rows ELSE verified) :
            table[j].pan_upper = table[i].pan_upper

\* row i has the name of a base row (search_by_pan) or the normalized seed
\* (search_by_seed_name)
SharesSeedName(i) ==
    /\ Truthy(table[i].name_norm)
    /\ IF op = "pan" THEN \E j \in base_rows : table[j].name_norm = table[i].name_norm
       ELSE table[i].name_norm = base_names[1]

\* C4 amended: a candidate below the loose threshold is never verified, and
\* it is in the final result only when it has the pan_upper of a base row
\* (search_by_pan) or of a verified candidate (search_by_seed_name), or the
\* name_norm of a base row or of the normalized seed.
C4_BelowLooseOnlyByClosure ==
    Expanded =>
        \A i \in candidates :
            (base_names # <<>> /\ BelowLoose(i)) =>
                /\ i \notin verified
                /\ i \in result => (SharesExpandedPan(i) \/ SharesSeedName(i))

\* a named candidate below the loose threshold, rejected, and returned
\* through the PAN it shares with a verified candidate
C4_Witness ==
    /\ Expanded
    /\ op = "name"
    /\ verified # {}
    /\ \E i \in candidates :
        /\ BelowLoose(i) /\ Truthy(table[i].name_norm)
        /\ i \notin verified
        /\ i \in result /\ SharesExpandedPan(i) /\ ~SharesSeedName(i)

\* a SELECT of candidate rows was issued
CandidateQueryIssued ==
    \E k \in 1..Len(stmts) :
        stmts[k] \in {"SELECT candidates WHERE name_phonetic IN",
                      "SELECT candidates WHERE name_norm IN"}

\* C6: search_by_seed_name("") ends with an empty result; blocking issues no
\* candidate query and returns no candidate whenever the seeded names hold no
\* non-empty name.
C6_EmptySeed ==
    /\ (op = "name" /\ seed = <<>> /\ pc \in {"blocked", "verified"}) => ENABLED Next
    /\ (op = "name" /\ seed = <<>> /\ pc = "done") => (Expanded /\ result = {})
    /\ (/\ pc \in {"blocked", "verified", "done"}
        /\ op \in {"pan", "name"}
        /\ base_rows # {} \/ op = "name"
        /\ \A k \in 1..Len(base_names) : ~Truthy(base_names[k]))
            => (candidates = {} /\ ~CandidateQueryIssued)

\* search_by_seed_name("") has returned, over a table with a phonetic column
\* that holds rows without name and rows with the empty phonetic key's value
C6_Witness ==
    /\ op = "name" /\ seed = <<>> /\ pc = "done"
    /\ hasPhon
    /\ \E i \in RowIds : ~Truthy(table[i].name_norm)
    /\ stmts = <<"PRAGMA table_info", "SELECT * expand">>

\* the row retrievals among the statements
IsRetrieval(st) == st # "PRAGMA table_info"

\* rank of a retrieval in the order seed lookup, blocking, expansion
RetrievalRank(st) ==
    CASE st = "SELECT seed WHERE pan_upper =" -> 1
      [] st = "SELECT candidates WHERE name_phonetic IN" -> 2
      [] st = "SELECT candidates WHERE name_norm IN" -> 2
      [] st = "SELECT * expand" -> 3
      [] OTHER -> 0

\* C9 as stated: at most three statements per resolution, in the order seed
\* lookup, blocking, expansion; search_by_pan without base rows returns empty
\* without blocking or expansion.
C9_AtMostThreeStatements ==
    /\ Len(stmts) <= 3
    /\ \A i, j \in 1..Len(stmts) : i < j => RetrievalRank(stmts[i]) < RetrievalRank(stmts[j])
    /\ (op = "pan" /\ pc = "done" /\ base_rows = {}) =>
            (result = {} /\ \A k \in 1..Len(stmts) : RetrievalRank(stmts[k]) \notin {2, 3})

\* C9 amended: at most three row retrievals per resolution, in the order seed
\* lookup, blocking, expansion, plus one PRAGMA table_info before the seed
\* lookup and one before the blocking (at most five statements);
\* search_by_pan without base rows returns empty after the seed lookup alone.
C9_AtMostThreeRetrievals ==
    LET retrievals == SelectSeq(stmts, IsRetrieval)
    IN /\ Len(retrievals) <= 3
       /\ Len(stmts) <= 5
       /\ \A i, j \in 1..Len(retrievals) :
            i < j => RetrievalRank(retrievals[i]) < RetrievalRank(retrievals[j])
       /\ \A k \in 1..Len(stmts) :
            ~IsRetrieval(stmts[k]) =>
                /\ \A j \in 1..(k - 1) : RetrievalRank(stmts[j]) < 2
                /\ k > 1 => IsRetrieval(stmts[k - 1])
       /\ (op = "pan" /\ pc = "done" /\ base_rows = {}) =>
            /\ result = {}
            /\ stmts = <<"PRAGMA table_info", "SELECT seed WHERE pan_upper =">>

\* a search_by_pan that issued all five statements, the three retrievals in
\* order
C9_Witness ==
    /\ op = "pan" /\ pc = "done"
    /\ Len(stmts) = 5
    /\ SelectSeq(stmts, IsRetrieval) =
          <<"SELECT seed WHERE pan_upper =", "SELECT candidates WHERE name_phonetic IN",
            "SELECT * expand">>

-----------------------------------------------------------------------------
(* The pipeline under every candidate limit and row cap, together with      *)
(* direct calls of candidate_block_by_names and                             *)
(* expand_all_transactions_for_entities.                                    *)

CapConfigs ==
    [name_strict : {90}, name_medium : {60}, name_loose : {50},
     address_loose : {60}, mobile_exact_required : {FALSE},
     candidate_limit : 0..MaxCap, limit_return_rows : 0..MaxCap]

\* arguments of the direct calls
CallNameLists == {<<>>, <<<<>>>>, <<<<"a", "b">>>>, <<<<>>, <<"a", "p">>>>}
CallPanSets == {{}, {<<>>}, {<<>>, Null}, {<<"a", " ">>}}
CallNameSets == {{}, {<<>>}, {<<>>, Null}, {<<"a", "b">>, <<>>}}

InitCaps ==
    /\ arg = <<>> /\ ret = <<>> /\ fpc = "none"
    /\ hasPhon \in BOOLEAN
    /\ table \in Tables(hasPhon, <<<<>>, <<"a", "b">>>>, <<<<>>, <<"A">>>>)
    /\ cfg \in CapConfigs
    /\ IdleReq

\* candidate_block_by_names called on its own
BlockCall ==
    /\ pc = "idle"
    /\ \E names \in CallNameLists :
        /\ base_names' = names
        /\ candidates' \in candidate_block_by_names(names)
        /\ stmts' = BlockStatements(names)
    /\ op' = "block"
    /\ pc' = "done"
    /\ UNCHANGED <<seed, base_rows, verified, exp_pans, exp_names, result, fvars, dbvars>>

\* expand_all_transactions_for_entities called on its own
ExpandCall ==
    /\ pc = "idle"
    /\ \E pans \in CallPanSets, names \in CallNameSets :
        /\ exp_pans' = pans
        /\ exp_names' = names
        /\ result' \in expand_all_transactions_for_entities(pans, names)
    /\ stmts' = <<"SELECT * expand">>
    /\ op' = "expand"
    /\ pc' = "done"
    /\ UNCHANGED <<seed, base_rows, base_names, candidates, verified, fvars, dbvars>>

NextCaps ==
    \/ FetchRowsForPan
    \/ BlockByCanonicalNames
    \/ BlockBySeedName
    \/ VerifyCandidates
    \/ ExpandEntities
    \/ BlockCall
    \/ ExpandCall
    \/ Return

SpecCaps == InitCaps /\ [][NextCaps]_vars

\* expand_all_transactions_for_entities has returned
ExpandReturned == pc = "done" /\ "SELECT * expand" \in Range(stmts)

\* candidate_block_by_names has returned
BlockReturned == pc \in {"blocked", "verified"} \/ (pc = "done" /\ op = "block") \/ Expanded

\* C1: called with a PAN list and a name list that are empty or hold only
\* empty strings, expand_all_transactions_for_entities returns no row,
\* whatever the table holds.
C1_EmptyExpansion ==
    (/\ ExpandReturned
     /\ \A q \in exp_pans : q = <<>>
     /\ \A n \in exp_names : n = <<>>) => result = {}

\* the call with lists of empty strings, over a table that has a row whose
\* PAN and name are empty, without row cap
C1_Witness ==
    /\ ExpandReturned /\ op = "expand"
    /\ exp_pans = {<<>>} /\ exp_names = {<<>>}
    /\ \E i \in RowIds : table[i].pan_upper = <<>> /\ table[i].name_norm = <<>>
    /\ cfg.limit_return_rows = 0
    /\ result = {}

\* C2 as stated: blocking returns at most candidate_limit rows and the closure
\* expansion at most limit_return_rows rows, for every configuration value.
C2_CapsAlways ==
    /\ BlockReturned => Cardinality(candidates) <= cfg.candidate_limit
    /\ ExpandReturned => Cardinality(result) <= cfg.limit_return_rows

\* C2 amended: blocking returns at most candidate_limit rows; the closure
\* expansion returns at most limit_return_rows rows whenever limit_return_rows
\* is not 0 (a cap of 0 adds no LIMIT and every matching row is returned).
C2_CapsWhenSet ==
    /\ BlockReturned => Cardinality(candidates) <= cfg.candidate_limit
    /\ (ExpandReturned /\ cfg.limit_return_rows # 0)
            => Cardinality(result) <= cfg.limit_return_rows
    /\ (ExpandReturned /\ cfg.limit_return_rows = 0)
            => result = ExpandMatching(exp_pans, exp_names)

\* a search whose blocking and whose expansion were both cut by their caps
C2_Witness ==
    /\ Expanded
    /\ Cardinality(candidates) = cfg.candidate_limit
    /\ Cardinality(BlockMatching(base_names)) > cfg.candidate_limit
    /\ Cardinality(result) = cfg.limit_return_rows
    /\ Cardinality(ExpandMatching(exp_pans, exp_names)) > cfg.limit_return_rows

\* the rows whose name_norm is the normalized seed
SeedRows == {i \in RowIds : table[i].name_norm = normalize_name(seed)}

\* C7 as stated: without name_phonetic column, search_by_seed_name blocks by
\* exact match on the normalized name and, for every non-empty seed, returns
\* the rows whose name_norm is normalize_name(seed), up to the row cap.
C7_FallbackEverySeed ==
    (Expanded /\ op = "name" /\ ~hasPhon /\ seed # <<>>) =>
        /\ "SELECT candidates WHERE name_norm IN" \in Range(stmts)
        /\ \A i \in candidates : table[i].name_norm = normalize_name(seed)
        /\ SeedRows \subseteq result \/ Truncated

\* C7 amended: the same for every seed whose normalized form is not empty;
\* the blocking matches name_norm against normalize_name of the seeded
\* (already normalized) name.
C7_FallbackNamedSeed ==
    (Expanded /\ op = "name" /\ ~hasPhon /\ normalize_name(seed) # <<>>) =>
        /\ "SELECT candidates WHERE name_norm IN" \in Range(stmts)
        /\ ~("SELECT candidates WHERE name_phonetic IN" \in Range(stmts))
        /\ \A i \in candidates : table[i].name_norm = normalize_name(normalize_name(seed))
        /\ SeedRows \subseteq result \/ Truncated
        /\ Truncated => Cardinality(result) = cfg.limit_return_rows

\* the fallback returned the rows of the seed's name although no candidate was
\* verified
C7_Witness ==
    /\ Expanded /\ op = "name" /\ ~hasPhon
    /\ normalize_name(seed) # <<>>
    /\ verified = {}
    /\ Cardinality(SeedRows) >= 2
    /\ SeedRows \subseteq result

-----------------------------------------------------------------------------
(* pick_canonical_names applied to the name_norm column of some base rows *)

CanonNames == {Null, <<>>, <<"a">>, <<"b">>, <<"p">>, <<"i">>}

InitCanon ==
    /\ arg \in StringsUpTo(CanonNames, MaxCanonRows)
    /\ ret = <<>>
    /\ fpc = "start"
    /\ IdleDb /\ IdleReq

PickCanonical ==
    /\ fpc = "start"
    /\ ret' = pick_canonical_names(arg)
    /\ fpc' = "picked"
    /\ UNCHANGED <<arg, dbvars, reqvars>>

NextCanon == PickCanonical

SpecCanon == InitCanon /\ [][NextCanon]_vars

\* position of the first occurrence of x in s
FirstIndex(x, s) == CHOOSE i \in 1..Len(s) : s[i] = x /\ \A j \in 1..(i - 1) : s[j] # x

\* ret lists names of arg by descending frequency, ties by first occurrence
RankedByFrequency ==
    \A i, j \in 1..Len(ret) :
        i < j =>
            /\ ret[i] \in Range(arg) /\ ret[j] \in Range(arg)
            /\ \/ CountIn(ret[i], arg) > CountIn(ret[j], arg)
               \/ /\ CountIn(ret[i], arg) = CountIn(ret[j], arg)
                  /\ FirstIndex(ret[i], arg) < FirstIndex(ret[j], arg)

\* C5 as stated: at most 3 names, ranked by descending frequency with ties in
\* first-seen order, and never empty when there is at least one base row
\* (rows with an empty or NULL name_norm included).
C5_NeverEmptyWithRows ==
    fpc = "picked" =>
        /\ Len(ret) <= 3
        /\ RankedByFrequency
        /\ (arg # <<>> => ret # <<>>)

\* C5 amended: at most 3 names, ranked by descending frequency with ties in
\* first-seen order, and never empty when at least one base row has a
\* non-empty, non-NULL name_norm.
C5_CanonicalNames ==
    fpc = "picked" =>
        /\ Len(ret) <= 3
        /\ RankedByFrequency
        /\ ((\E i \in 1..Len(arg) : Truthy(arg[i])) => ret # <<>>)

\* four distinct names with a tie among the first three, and an empty name
C5_Witness ==
    /\ fpc = "picked"
    /\ Len(ret) = 3
    /\ CountIn(ret[1], arg) = CountIn(ret[2], arg)
    /\ Cardinality({n \in Range(arg) : Truthy(n)}) = 4
    /\ \E i \in 1..Len(arg) : ~Truthy(arg[i])

-----------------------------------------------------------------------------
(* verify_candidate applied to one candidate row *)

\* values of the name thresholds: below, between and above the scores
ThresholdValues == {0, 60, 101}

VerifyConfigs ==
    [name_strict : ThresholdValues, name_medium : ThresholdValues,
     name_loose : ThresholdValues, address_loose : ThresholdValues,
     mobile_exact_required : BOOLEAN,
     candidate_limit : {1}, limit_return_rows : {1}]

VerifyNames == {<<>>, <<"a", "b">>, <<"a", "p">>}

VerifyRows ==
    [name_norm : {Null, <<>>, <<"a", "b">>, <<"a", "p">>, <<"b">>},
     name_phonetic : {<<>>},
     address : {Null, <<>>, <<" ">>, <<"a">>},
     mobile : {Null, <<>>, <<"p">>},
     pan_upper : {<<>>}]

InitVerify ==
    /\ arg \in [names : StringsUpTo(VerifyNames, MaxBaseNames), row : VerifyRows]
    /\ ret = <<>>
    /\ fpc = "start"
    /\ cfg \in VerifyConfigs
    /\ table = <<>> /\ hasPhon = FALSE
    /\ IdleReq

VerifyCall ==
    /\ fpc = "start"
    /\ ret' = <<verify_candidate(arg.names, arg.row)>>
    /\ fpc' = "verified"
    /\ UNCHANGED <<arg, dbvars, reqvars>>

NextVerify == VerifyCall

SpecVerify == InitVerify /\ [][NextVerify]_vars

\* the name similarity of the candidate is at least t for some seeded name
SomeScoreAtLeast(t) ==
    \/ \E k \in 1..Len(arg.names) : fuzzy_name_score(arg.row.name_norm, arg.names[k]) >= t
    \/ arg.names = <<>> /\ 0 >= t

\* the attribute evidence the loose tier asks for
Corroborated ==
    \/ token_set_ratio(OrEmpty(arg.row.address), OrEmpty(arg.row.address)) >= cfg.address_loose
    \/ ~cfg.mobile_exact_required
    \/ Truthy(arg.row.mobile)

====
